---- MODULE Spec2Model ----
(***************************************************************************)
(* A model of class thread_pool of src/thread_pool.hpp: the task queue and *)
(* its counter, the worker loop, and the public operations push_task,      *)
(* submit, pause, resume, wait_for_tasks, reset and the destructor.        *)
(*                                                                         *)
(* One step of the model is one access to shared state: a critical section *)
(* that touches only data protected by tasks_mutex is one step, while the  *)
(* reads and writes of the atomics running and paused, which the code      *)
(* performs without the mutex, the evaluation of a wait predicate and the  *)
(* blocking on a condition variable are steps of their own.                *)
(***************************************************************************)
EXTENDS Integers, Sequences, FiniteSets, TLC

\* ---------------------------------------------------------------------------
\* Bounds of the model
\* ---------------------------------------------------------------------------
MaxThreads == 2     \* largest thread count passed to the constructor or reset
MaxTasks   == 2     \* number of tasks the callers enqueue in one behaviour
IndexBits  == 4     \* width of the loop index type T and of ui32; ui64 is twice as wide
MaxBlocks  == 4     \* largest num_blocks passed to parallelize_loop

Workers == 1..MaxThreads
TaskIds == 1..MaxTasks
Clients == {"main", "ext"}

VARIABLES
    running,        \* std::atomic<bool> running
    paused,         \* std::atomic<bool> paused
    tasks,          \* std::queue<std::function<void()>> tasks: task ids, head first
    tasks_total,    \* ui32 tasks_total
    thread_count,   \* ui32 thread_count
    tasks_mutex,    \* TRUE while some thread holds tasks_mutex
    task_available, \* workers blocked on task_available_condition_variable
    tasks_done,     \* callers blocked on tasks_done_condition_variable
    wpc,            \* position of each worker thread in worker()
    cur,            \* the task a worker moved out of the queue (0: none)
    cpc,            \* position of each calling thread
    ret,            \* where wait_for_tasks returns to in each calling thread
    was_paused,     \* reset's local was_paused
    task,           \* per task: its kind, its body's outcome, its promise
    script,         \* per calling thread: the calls it still makes, in order
    loop_args,      \* parallelize_loop: first_index, index_after_last and
                    \* num_blocks as the caller passed them
    the_first_index,      \* parallelize_loop: T the_first_index
    last_index,           \* parallelize_loop: T last_index
    num_blocks,           \* parallelize_loop: ui32 num_blocks
    block_size,           \* parallelize_loop: ui64 block_size
    loop_t,               \* parallelize_loop: the loop counter ui32 t
    blocks,               \* parallelize_loop: the <<start, end>> captured so far
    blocks_running,       \* parallelize_loop: ui32 blocks_running
    blocks_running_mutex, \* TRUE while some thread holds blocks_running_mutex
    loop_done             \* callers blocked on loop_done_condition_variable

vars == <<running, paused, tasks, tasks_total, thread_count, tasks_mutex,
          task_available, tasks_done, wpc, cur, cpc, ret, was_paused, task,
          script, loop_args, the_first_index, last_index, num_blocks,
          block_size, loop_t, blocks, blocks_running, blocks_running_mutex,
          loop_done>>

\* the locals of parallelize_loop
loopVars == <<loop_args, the_first_index, last_index, num_blocks, block_size,
              loop_t, blocks, blocks_running, blocks_running_mutex, loop_done>>

poolVars == <<running, paused, tasks, tasks_total, thread_count>>

\* ---------------------------------------------------------------------------
\* Tasks, promises and task bodies
\* ---------------------------------------------------------------------------
Kinds == {"push", "submit_void", "submit_value"}
SubmitKinds == {"submit_void", "submit_value"}

\* The value a value-returning body returns, the failure a body raises, and
\* the constant true that submit stores for a void body.
ResultOf(id)  == 10 + id
FailureOf(id) == 20 + id
TrueValue     == 1

NoPromise      == [tag |-> "none", val |-> 0, writes |-> 0]
PendingPromise == [tag |-> "pending", val |-> 0, writes |-> 0]

NoTask == [kind |-> "none", throws |-> FALSE, st |-> "new", runs |-> 0,
           promise |-> NoPromise]

\* std::promise::set_value / set_exception: stores into a pending shared state;
\* on a satisfied one it throws future_error, which both submit wrappers
\* swallow, leaving the shared state as it was.
promise_set(p, tag, v) ==
    IF p.tag = "pending"
    THEN [tag |-> tag, val |-> v, writes |-> p.writes + 1]
    ELSE p

\* submit()'s lambda with a handler that swallows the exception and never
\* calls set_exception.
submit_void_body_swallow(id, t) ==
    IF t.throws
    THEN t.promise
    ELSE promise_set(t.promise, "value", TrueValue)

\* The lambda submit() pushes for a void callable.
submit_void_body(id, t) ==
    IF t.throws
    THEN promise_set(t.promise, "exception", FailureOf(id))
    ELSE promise_set(t.promise, "value", TrueValue)

\* The lambda submit() pushes for a value-returning callable.
submit_value_body(id, t) ==
    IF t.throws
    THEN promise_set(t.promise, "exception", FailureOf(id))
    ELSE promise_set(t.promise, "value", ResultOf(id))

\* TRUE iff calling the queued std::function lets an exception escape into
\* worker(): only a task enqueued by push_task, by a caller (kind "push", or
\* "nested" when its body calls the pool) or by parallelize_loop (kind
\* "block"), has no handler around its body.
task_escapes(t) == t.kind \notin SubmitKinds /\ t.throws

\* ---------------------------------------------------------------------------
\* Queue and counter
\* ---------------------------------------------------------------------------
get_tasks_queued_unprotected  == Len(tasks)
\* tasks_total - (ui32) tasks.size(); a negative value here is the unsigned
\* subtraction wrapping around.
get_tasks_running_unprotected == tasks_total - get_tasks_queued_unprotected
get_tasks_total_unprotected   == tasks_total

\* a push at the head of the queue
queue_push_front(q, id) == <<id>> \o q
queue_push(q, id) == Append(q, id)
queue_front(q)    == Head(q)
\* worker() with tasks.pop() left out
queue_pop_keep(q) == q
queue_pop(q)      == Tail(q)
\* push_task() with tasks_total++ left out
counter_inc_none(n) == n
counter_inc(n)    == n + 1
\* worker() with --tasks_total left out
counter_dec_none(n) == n
counter_dec(n)    == n - 1

\* a wait without a predicate: any wake-up ends it
worker_wait_pred_none == TRUE
\* The predicate worker() waits for on task_available_condition_variable.
worker_wait_pred == tasks # <<>> \/ ~running
\* a test that does not look at running
worker_may_take_unpaused == ~paused
\* The test worker() makes after the wait before taking a task.
worker_may_take  == running /\ ~paused
\* a predicate that does not look at paused
wait_for_tasks_pred_running_only == get_tasks_running_unprotected = 0
\* The predicate wait_for_tasks() waits for on tasks_done_condition_variable.
wait_for_tasks_pred ==
    IF ~paused THEN tasks_total = 0
               ELSE get_tasks_running_unprotected = 0

\* notify_one: wakes one of the threads blocked on the condition variable, if
\* there is one.  The result is the set of possible new waiting sets.
\* a notify_one that wakes nobody
notify_one_lost(waiting) == {waiting}
notify_one(waiting) ==
    IF waiting = {} THEN {waiting} ELSE {waiting \ {x} : x \in waiting}
notify_all(waiting) == {}

\* create_threads(): threads[0 .. thread_count-1] start running worker().
create_threads(n) == [w \in Workers |-> IF w <= n THEN "loop" ELSE "none"]

\* std::terminate: the process is gone, no thread takes another step.
terminated_wpc == [w \in Workers |-> "aborted"]
terminated_cpc == [c \in Clients |-> "aborted"]

\* The program of a calling thread that is free to make any call at any time.
AnyCalls == <<"*">>

\* ---------------------------------------------------------------------------
\* Initial state: thread_pool(_thread_count) has returned
\* ---------------------------------------------------------------------------
InitPool ==
    /\ running = TRUE
    /\ paused = FALSE
    /\ tasks = <<>>
    /\ tasks_total = 0
    /\ thread_count \in 0..MaxThreads
    /\ tasks_mutex = FALSE
    /\ task_available = {}
    /\ tasks_done = {}
    /\ wpc = create_threads(thread_count)
    /\ cur = [w \in Workers |-> 0]
    /\ cpc = [c \in Clients |-> "idle"]
    /\ ret = [c \in Clients |-> "none"]
    /\ was_paused = FALSE
    /\ task = [i \in TaskIds |-> NoTask]
    /\ loop_args = <<0, 0, 0>>
    /\ the_first_index = 0
    /\ last_index = 0
    /\ num_blocks = 0
    /\ block_size = 0
    /\ loop_t = 0
    /\ blocks = <<>>
    /\ blocks_running = 0
    /\ blocks_running_mutex = FALSE
    /\ loop_done = {}

\* every calling thread may make any call at any time
Init ==
    /\ InitPool
    /\ script = [c \in Clients |-> AnyCalls]

\* ---------------------------------------------------------------------------
\* worker()
\* ---------------------------------------------------------------------------
\* while (running)
WorkerLoop(w) ==
    /\ wpc[w] = "loop"
    /\ wpc' = [wpc EXCEPT ![w] = IF running THEN "lock" ELSE "exited"]
    /\ UNCHANGED <<poolVars, tasks_mutex, task_available, tasks_done, cur,
                   cpc, ret, was_paused, task>>
    /\ UNCHANGED <<script, loopVars>>

\* std::unique_lock<std::mutex> lock(tasks_mutex); wait(lock, pred) evaluates
\* the predicate with the mutex held.
WorkerLock(w) ==
    /\ wpc[w] = "lock"
    /\ ~tasks_mutex
    /\ tasks_mutex' = TRUE
    /\ wpc' = [wpc EXCEPT ![w] = IF worker_wait_pred THEN "check" ELSE "block"]
    /\ UNCHANGED <<poolVars, task_available, tasks_done, cur,
                   cpc, ret, was_paused, task>>
    /\ UNCHANGED <<script, loopVars>>

\* wait(lock): releases the mutex and blocks, atomically
WorkerBlock(w) ==
    /\ wpc[w] = "block"
    /\ tasks_mutex' = FALSE
    /\ task_available' = task_available \cup {w}
    /\ wpc' = [wpc EXCEPT ![w] = "cv"]
    /\ UNCHANGED <<poolVars, tasks_done, cur,
                   cpc, ret, was_paused, task>>
    /\ UNCHANGED <<script, loopVars>>

\* a woken worker re-acquires the mutex and evaluates the predicate again
WorkerWake(w) ==
    /\ wpc[w] = "cv"
    /\ w \notin task_available
    /\ ~tasks_mutex
    /\ tasks_mutex' = TRUE
    /\ wpc' = [wpc EXCEPT ![w] = IF worker_wait_pred THEN "check" ELSE "block"]
    /\ UNCHANGED <<poolVars, task_available, tasks_done, cur,
                   cpc, ret, was_paused, task>>
    /\ UNCHANGED <<script, loopVars>>

\* if (running && !paused); when the test fails the lock goes out of scope
WorkerCheck(w) ==
    /\ wpc[w] = "check"
    /\ IF worker_may_take
       THEN /\ wpc' = [wpc EXCEPT ![w] = "pop"]
            /\ UNCHANGED tasks_mutex
       ELSE /\ wpc' = [wpc EXCEPT ![w] = "loop"]
            /\ tasks_mutex' = FALSE
    /\ UNCHANGED <<poolVars, task_available, tasks_done, cur,
                   cpc, ret, was_paused, task>>
    /\ UNCHANGED <<script, loopVars>>

\* the dequeue with lock.unlock() left out
WorkerPop_locked(w) ==
    /\ wpc[w] = "pop"
    /\ IF tasks # <<>>
       THEN /\ cur' = [cur EXCEPT ![w] = queue_front(tasks)]
            /\ tasks' = queue_pop(tasks)
            /\ task' = [task EXCEPT ![queue_front(tasks)].st = "running"]
            /\ wpc' = [wpc EXCEPT ![w] = "exec"]
            /\ tasks_mutex' = TRUE
            /\ UNCHANGED cpc
       ELSE /\ wpc' = terminated_wpc
            /\ cpc' = terminated_cpc
            /\ UNCHANGED <<cur, tasks, task, tasks_mutex>>
    /\ UNCHANGED <<running, paused, tasks_total, thread_count, task_available,
                   tasks_done, ret,  was_paused>>
    /\ UNCHANGED <<script, loopVars>>

\* auto task = std::move(tasks.front()); tasks.pop(); lock.unlock();
\* front() and pop() of an empty queue are undefined: the process is lost.
WorkerPop(w) ==
    /\ wpc[w] = "pop"
    /\ IF tasks # <<>>
       THEN /\ cur' = [cur EXCEPT ![w] = queue_front(tasks)]
            /\ tasks' = queue_pop(tasks)
            /\ task' = [task EXCEPT ![queue_front(tasks)].st = "running"]
            /\ wpc' = [wpc EXCEPT ![w] = "exec"]
            /\ tasks_mutex' = FALSE
            /\ UNCHANGED cpc
       ELSE /\ wpc' = terminated_wpc
            /\ cpc' = terminated_cpc
            /\ UNCHANGED <<cur, tasks, task, tasks_mutex>>
    /\ UNCHANGED <<running, paused, tasks_total, thread_count, task_available,
                   tasks_done, ret,  was_paused>>
    /\ UNCHANGED <<script, loopVars>>

\* task(): the body runs without the mutex.  An exception that leaves the
\* std::function leaves worker() too, and std::thread calls std::terminate.
\* The lambda of parallelize_loop goes on after loop(start, end) has returned,
\* and a body that calls the pool (kind "nested") goes on with that call.
WorkerExec(w) ==
    /\ wpc[w] = "exec"
    /\ LET id == cur[w]
           t  == task[id]
       IN  IF task_escapes(t)
           THEN /\ task' = [task EXCEPT ![id].runs = @ + 1]
                /\ wpc' = terminated_wpc
                /\ cpc' = terminated_cpc
           ELSE /\ task' = [task EXCEPT
                       ![id].runs = @ + 1,
                       ![id].st = IF t.kind = "nested" THEN @ ELSE "ran",
                       ![id].promise =
                           IF t.kind = "submit_void"
                           THEN submit_void_body(id, t)
                           ELSE IF t.kind = "submit_value"
                           THEN submit_value_body(id, t)
                           ELSE @]
                /\ wpc' = [wpc EXCEPT ![w] =
                              IF t.kind = "block" THEN "blk_lock"
                              ELSE IF t.kind = "nested" THEN "body_push"
                              ELSE "dec"]
                /\ UNCHANGED cpc
    /\ UNCHANGED <<poolVars, tasks_mutex, task_available, tasks_done, cur,
                   ret,  was_paused>>
    /\ UNCHANGED <<script, loopVars>>

\* lock.lock(); --tasks_total; lock.unlock();
WorkerDec(w) ==
    /\ wpc[w] = "dec"
    /\ ~tasks_mutex
    /\ tasks_total' = counter_dec(tasks_total)
    /\ task' = [task EXCEPT ![cur[w]].st = "done"]
    /\ cur' = [cur EXCEPT ![w] = 0]
    /\ wpc' = [wpc EXCEPT ![w] = "notify"]
    /\ UNCHANGED <<running, paused, tasks, thread_count, tasks_mutex,
                   task_available, tasks_done, cpc, ret, was_paused>>
    /\ UNCHANGED <<script, loopVars>>

\* tasks_done_condition_variable.notify_one()
WorkerNotify(w) ==
    /\ wpc[w] = "notify"
    /\ tasks_done' \in notify_one(tasks_done)
    /\ wpc' = [wpc EXCEPT ![w] = "loop"]
    /\ UNCHANGED <<poolVars, tasks_mutex, task_available, cur,
                   cpc, ret, was_paused, task>>
    /\ UNCHANGED <<script, loopVars>>

\* a condition variable may wake a blocked thread without a notification
SpuriousWake ==
    /\ \/ \E w \in task_available :
             /\ task_available' = task_available \ {w}
             /\ UNCHANGED tasks_done
       \/ \E c \in tasks_done :
             /\ tasks_done' = tasks_done \ {c}
             /\ UNCHANGED task_available
    /\ UNCHANGED <<poolVars, tasks_mutex, wpc, cur, cpc, ret, was_paused,
                   task>>
    /\ UNCHANGED <<script, loopVars>>

WorkerStep(w) ==
    \/ WorkerLoop(w)
    \/ WorkerLock(w)
    \/ WorkerBlock(w)
    \/ WorkerWake(w)
    \/ WorkerCheck(w)
    \/ WorkerPop(w)
    \/ WorkerExec(w)
    \/ WorkerDec(w)
    \/ WorkerNotify(w)

\* ---------------------------------------------------------------------------
\* Calling threads.  "main" owns the pool (it alone calls reset and the
\* destructor); "ext" is another thread that uses the pool.
\* ---------------------------------------------------------------------------
FreshIds == {i \in TaskIds : task[i].kind = "none"}
FirstFresh == CHOOSE i \in FreshIds : \A j \in FreshIds : i <= j

\* TRUE once main has entered the destructor
destroying == ret["main"] = "destroy" \/ cpc["main"] = "destroyed"

\* A calling thread either makes any calls in any order (AnyCalls), or the
\* calls of a fixed program, one after the other.
MayCall(c, op) ==
    /\ cpc[c] = "idle"
    /\ ~destroying
    /\ \/ script[c] = AnyCalls
       \/ script[c] # <<>> /\ Head(script[c]) = op
    /\ script' = [script EXCEPT ![c] = IF @ = AnyCalls THEN @ ELSE Tail(@)]

\* push_task(task) with a callable (kind "push"), or submit(task), which
\* creates the promise and the future and calls push_task with its lambda:
\* { scoped_lock lock(tasks_mutex); tasks.push(task); tasks_total++; }
push_task(c, kind, throws) ==
    /\ MayCall(c, IF kind \in SubmitKinds THEN "submit" ELSE "push_task")
    /\ FreshIds # {}
    /\ ~tasks_mutex
    /\ tasks' = queue_push(tasks, FirstFresh)
    /\ tasks_total' = counter_inc(tasks_total)
    /\ task' = [task EXCEPT ![FirstFresh] =
                   [kind |-> kind, throws |-> throws, st |-> "queued",
                    runs |-> 0,
                    promise |-> IF kind \in SubmitKinds THEN PendingPromise
                                ELSE NoPromise]]
    /\ cpc' = [cpc EXCEPT ![c] = "push_notify"]
    /\ UNCHANGED <<running, paused, thread_count, tasks_mutex, task_available,
                   tasks_done, wpc, cur, ret, was_paused>>
    /\ UNCHANGED loopVars

\* task_available_condition_variable.notify_one()
push_task_notify(c) ==
    /\ cpc[c] = "push_notify"
    /\ task_available' \in notify_one(task_available)
    /\ cpc' = [cpc EXCEPT ![c] = "idle"]
    /\ UNCHANGED <<poolVars, tasks_mutex, tasks_done, wpc, cur, ret,
                   was_paused, task>>
    /\ UNCHANGED <<script, loopVars>>

\* pause(): paused = true
pause(c) ==
    /\ MayCall(c, "pause")
    /\ paused' = TRUE
    /\ UNCHANGED <<running, tasks, tasks_total, thread_count, tasks_mutex,
                   task_available, tasks_done, wpc, cur, cpc, ret, 
                   was_paused, task>>
    /\ UNCHANGED loopVars

\* resume(): paused = false
resume(c) ==
    /\ MayCall(c, "resume")
    /\ paused' = FALSE
    /\ cpc' = [cpc EXCEPT ![c] = "resume_notify"]
    /\ UNCHANGED <<running, tasks, tasks_total, thread_count, tasks_mutex,
                   task_available, tasks_done, wpc, cur, ret, 
                   was_paused, task>>
    /\ UNCHANGED loopVars

\* resume(): task_available_condition_variable.notify_all()
resume_notify(c) ==
    /\ cpc[c] = "resume_notify"
    /\ task_available' = notify_all(task_available)
    /\ cpc' = [cpc EXCEPT ![c] = "idle"]
    /\ UNCHANGED <<poolVars, tasks_mutex, tasks_done, wpc, cur, ret, 
                   was_paused, task>>
    /\ UNCHANGED <<script, loopVars>>

\* wait_for_tasks(): what evaluating the predicate with the mutex held leads
\* to: a return, into the caller, reset or the destructor, with the mutex
\* released, or the blocking wait with the mutex still held.  `from` is what
\* called wait_for_tasks.
wait_eval(c, from) ==
    IF wait_for_tasks_pred
    THEN /\ tasks_mutex' = FALSE
         /\ cpc' = [cpc EXCEPT ![c] = IF from = "wait" THEN "idle" ELSE "stop"]
         /\ ret' = [ret EXCEPT ![c] = IF from = "wait" THEN "none" ELSE from]
    ELSE /\ tasks_mutex' = TRUE
         /\ cpc' = [cpc EXCEPT ![c] = "wait_block"]
         /\ ret' = [ret EXCEPT ![c] = from]

\* a caller calls wait_for_tasks(): std::unique_lock<std::mutex>
\* lock(tasks_mutex) and the first evaluation of the predicate
CallWait(c) ==
    /\ MayCall(c, "wait_for_tasks")
    /\ ~tasks_mutex
    /\ wait_eval(c, "wait")
    /\ UNCHANGED <<poolVars, task_available, tasks_done, wpc, cur,
                   was_paused, task>>
    /\ UNCHANGED loopVars

\* wait_for_tasks() called by reset() or the destructor: the lock and the
\* first evaluation of the predicate
wait_lock(c) ==
    /\ cpc[c] = "wait_lock"
    /\ ~tasks_mutex
    /\ wait_eval(c, ret[c])
    /\ UNCHANGED <<poolVars, task_available, tasks_done, wpc, cur,
                   was_paused, task>>
    /\ UNCHANGED <<script, loopVars>>

\* wait_for_tasks(): wait(lock) releases the mutex and blocks, atomically
wait_block(c) ==
    /\ cpc[c] = "wait_block"
    /\ tasks_mutex' = FALSE
    /\ tasks_done' = tasks_done \cup {c}
    /\ cpc' = [cpc EXCEPT ![c] = "wait_cv"]
    /\ UNCHANGED <<poolVars, task_available, wpc, cur, ret, 
                   was_paused, task>>
    /\ UNCHANGED <<script, loopVars>>

\* wait_for_tasks(): a woken caller re-acquires the mutex and evaluates the
\* predicate again
wait_wake(c) ==
    /\ cpc[c] = "wait_cv"
    /\ c \notin tasks_done
    /\ ~tasks_mutex
    /\ wait_eval(c, ret[c])
    /\ UNCHANGED <<poolVars, task_available, tasks_done, wpc, cur,
                   was_paused, task>>
    /\ UNCHANGED <<script, loopVars>>

\* a reset() that does not remember the pause flag
reset_forget(c) ==
    /\ c = "main"
    /\ MayCall(c, "reset")
    /\ was_paused' = FALSE
    /\ ret' = [ret EXCEPT ![c] = "reset"]
    /\ cpc' = [cpc EXCEPT ![c] = "reset_pause"]
    /\ UNCHANGED <<poolVars, tasks_mutex, task_available, tasks_done, wpc, cur,
                    task>>
    /\ UNCHANGED loopVars

\* reset(): const bool was_paused = paused
reset(c) ==
    /\ c = "main"
    /\ MayCall(c, "reset")
    /\ was_paused' = paused
    /\ ret' = [ret EXCEPT ![c] = "reset"]
    /\ cpc' = [cpc EXCEPT ![c] = "reset_pause"]
    /\ UNCHANGED <<poolVars, tasks_mutex, task_available, tasks_done, wpc, cur,
                    task>>
    /\ UNCHANGED loopVars

\* reset(): pause(); wait_for_tasks() follows
reset_pause(c) ==
    /\ cpc[c] = "reset_pause"
    /\ paused' = TRUE
    /\ cpc' = [cpc EXCEPT ![c] = "wait_lock"]
    /\ UNCHANGED <<running, tasks, tasks_total, thread_count, tasks_mutex,
                   task_available, tasks_done, wpc, cur, ret,  was_paused,
                   task>>
    /\ UNCHANGED <<script, loopVars>>

\* ~thread_pool(): wait_for_tasks() comes first
destroy(c) ==
    /\ c = "main"
    /\ MayCall(c, "destroy")
    /\ \A d \in Clients : cpc[d] = "idle"
    /\ ret' = [ret EXCEPT ![c] = "destroy"]
    /\ cpc' = [cpc EXCEPT ![c] = "wait_lock"]
    /\ UNCHANGED <<poolVars, tasks_mutex, task_available, tasks_done, wpc, cur,
                    was_paused, task>>
    /\ UNCHANGED loopVars

\* reset() and ~thread_pool(): running = false
stop_running(c) ==
    /\ cpc[c] = "stop"
    /\ running' = FALSE
    /\ cpc' = [cpc EXCEPT ![c] = "destroy_notify"]
    /\ UNCHANGED <<paused, tasks, tasks_total, thread_count, tasks_mutex,
                   task_available, tasks_done, wpc, cur, ret,  was_paused,
                   task>>
    /\ UNCHANGED <<script, loopVars>>

\* destroy_threads(): task_available_condition_variable.notify_all()
destroy_threads_notify(c) ==
    /\ cpc[c] = "destroy_notify"
    /\ task_available' = notify_all(task_available)
    /\ cpc' = [cpc EXCEPT ![c] = "destroy_join"]
    /\ UNCHANGED <<poolVars, tasks_mutex, tasks_done, wpc, cur, ret, 
                   was_paused, task>>
    /\ UNCHANGED <<script, loopVars>>

\* destroy_threads(): threads[i].join() for every i < thread_count; each join
\* returns once that worker has left worker().
AllJoined == \A w \in Workers : w <= thread_count => wpc[w] = "exited"

destroy_threads_join(c) ==
    /\ cpc[c] = "destroy_join"
    /\ AllJoined
    /\ cpc' = [cpc EXCEPT ![c] = IF ret[c] = "reset" THEN "reset_resize"
                                  ELSE "destroyed"]
    /\ UNCHANGED <<poolVars, tasks_mutex, task_available, tasks_done, wpc, cur,
                   ret,  was_paused, task>>
    /\ UNCHANGED <<script, loopVars>>

\* reset(): thread_count = _thread_count; threads.reset(new std::thread[...]).
\* The argument is read here for the first time, so it is drawn here.
reset_resize(c, n) ==
    /\ cpc[c] = "reset_resize"
    /\ thread_count' = n
    /\ wpc' = [w \in Workers |-> "none"]
    /\ cpc' = [cpc EXCEPT ![c] = IF was_paused THEN "reset_create"
                                  ELSE "reset_resume"]
    /\ UNCHANGED <<running, paused, tasks, tasks_total, tasks_mutex,
                   task_available, tasks_done, cur, ret,  was_paused,
                   task>>
    /\ UNCHANGED <<script, loopVars>>

\* reset(): if (!was_paused) resume(), which is paused = false ...
reset_resume(c) ==
    /\ cpc[c] = "reset_resume"
    /\ paused' = FALSE
    /\ cpc' = [cpc EXCEPT ![c] = "reset_resume_notify"]
    /\ UNCHANGED <<running, tasks, tasks_total, thread_count, tasks_mutex,
                   task_available, tasks_done, wpc, cur, ret,  was_paused,
                   task>>
    /\ UNCHANGED <<script, loopVars>>

\* ... and task_available_condition_variable.notify_all()
reset_resume_notify(c) ==
    /\ cpc[c] = "reset_resume_notify"
    /\ task_available' = notify_all(task_available)
    /\ cpc' = [cpc EXCEPT ![c] = "reset_create"]
    /\ UNCHANGED <<poolVars, tasks_mutex, tasks_done, wpc, cur, ret, 
                   was_paused, task>>
    /\ UNCHANGED <<script, loopVars>>

\* a reset() that creates the new threads without running = true
reset_create_stopped(c) ==
    /\ cpc[c] = "reset_create"
    /\ wpc' = create_threads(thread_count)
    /\ cpc' = [cpc EXCEPT ![c] = "idle"]
    /\ ret' = [ret EXCEPT ![c] = "none"]
    /\ UNCHANGED <<running, paused, tasks, tasks_total, thread_count,
                   tasks_mutex, task_available, tasks_done, cur,  was_paused,
                   task>>
    /\ UNCHANGED <<script, loopVars>>

\* reset(): running = true; create_threads()
reset_create(c) ==
    /\ cpc[c] = "reset_create"
    /\ running' = TRUE
    /\ wpc' = create_threads(thread_count)
    /\ cpc' = [cpc EXCEPT ![c] = "idle"]
    /\ ret' = [ret EXCEPT ![c] = "none"]
    /\ UNCHANGED <<paused, tasks, tasks_total, thread_count, tasks_mutex,
                   task_available, tasks_done, cur,  was_paused,
                   task>>
    /\ UNCHANGED <<script, loopVars>>

\* the steps inside an operation a caller has begun
ClientContinue(c) ==
    \/ push_task_notify(c)
    \/ resume_notify(c)
    \/ wait_lock(c)
    \/ wait_block(c)
    \/ wait_wake(c)
    \/ reset_pause(c)
    \/ stop_running(c)
    \/ destroy_threads_notify(c)
    \/ destroy_threads_join(c)
    \/ \E n \in 0..MaxThreads : reset_resize(c, n)
    \/ reset_resume(c)
    \/ reset_resume_notify(c)
    \/ reset_create(c)

\* the calls a caller may make
ClientCall(c) ==
    \/ \E k \in Kinds, th \in BOOLEAN : push_task(c, k, th)
    \/ pause(c)
    \/ resume(c)
    \/ CallWait(c)
    \/ reset(c)
    \/ destroy(c)

Next ==
    \/ \E w \in Workers : WorkerStep(w)
    \/ \E c \in Clients : ClientCall(c)
    \/ \E c \in Clients : ClientContinue(c)
    \/ SpuriousWake

Spec == Init /\ [][Next]_vars

TypeOK ==
    /\ running \in BOOLEAN /\ paused \in BOOLEAN
    /\ tasks \in Seq(TaskIds)
    /\ thread_count \in 0..MaxThreads
    /\ task_available \subseteq Workers
    /\ tasks_done \subseteq Clients

\* ---------------------------------------------------------------------------
\* Properties
\* ---------------------------------------------------------------------------
Enqueued == {i \in TaskIds : task[i].kind # "none"}
Resolved(i) == task[i].promise.tag \in {"value", "exception"}
\* the workers that have moved a task out of the queue and not yet executed
\* --tasks_total for it
InFlight == {w \in Workers : cur[w] # 0}
Holders(i) == {w \in Workers : cur[w] = i}
QueueSlots(i) == {k \in DOMAIN tasks : tasks[k] = i}
Aborted == \E w \in Workers : wpc[w] = "aborted"

\* C1: no enqueued task is executed more than once: a queue entry is held by
\* at most one worker and is no longer in the queue then, its body has run
\* once when the worker is done with it, and not at all before a worker
\* removed it.
C1_ExactlyOnce ==
    \A i \in TaskIds :
        /\ task[i].runs <= 1
        /\ Cardinality(Holders(i)) + Cardinality(QueueSlots(i)) <= 1
        /\ task[i].st \in {"ran", "done"} => task[i].runs = 1
        /\ task[i].st \in {"new", "queued"} =>
               task[i].runs = 0 /\ Holders(i) = {}
        /\ task[i].st = "queued" <=> QueueSlots(i) # {}

\* C1 witness: every task the callers enqueued has been run and accounted for.
C1_Witness ==
    \A i \in TaskIds : task[i].st = "done" /\ task[i].runs = 1

\* C2 as stated: once every handle of the tasks given to submit has resolved,
\* get_tasks_total() returns 0.
AllSubmitted == \A i \in Enqueued : task[i].kind \in SubmitKinds
AllAwaited   == \A i \in Enqueued : Resolved(i)

C2_TotalZeroAfterAwait ==
    (AllSubmitted /\ AllAwaited /\ ~tasks_mutex) =>
        get_tasks_total_unprotected = 0

\* C2 as amended: once every handle has resolved, nothing is queued and
\* get_tasks_total() returns the number of workers that have returned from a
\* task body and have not yet executed --tasks_total.
C2_TotalAfterAwait ==
    (AllSubmitted /\ AllAwaited /\ ~tasks_mutex) =>
        /\ get_tasks_queued_unprotected = 0
        /\ get_tasks_total_unprotected =
               Cardinality({w \in Workers : wpc[w] = "dec"})

\* C2 witness: all MaxTasks tasks went through submit, all handles resolved,
\* and one worker has not decremented the counter yet.
C2_Witness ==
    /\ Enqueued = TaskIds
    /\ AllSubmitted /\ AllAwaited /\ ~tasks_mutex
    /\ tasks_total = 1

\* C3: a failure raised by a task enqueued with push_task is contained: the
\* body has returned into worker(), and no thread has been terminated.
C3_PushFailureContained ==
    \A i \in TaskIds :
        (task[i].kind = "push" /\ task[i].throws /\ task[i].runs > 0) =>
            /\ task[i].st \in {"ran", "done"}
            /\ ~Aborted

\* C6: a pool that takes work has at least one worker.
C6_AtLeastOneWorker ==
    (cpc["main"] = "idle" /\ Enqueued # {}) => thread_count >= 1

C8_HandleState ==
    \A i \in TaskIds : task[i].kind \in SubmitKinds =>
        /\ task[i].st \in {"new", "queued", "running"} =>
               task[i].promise = PendingPromise /\ task[i].runs = 0
        /\ task[i].st \in {"ran", "done"} =>
               /\ task[i].promise.writes = 1
               /\ task[i].promise.tag =
                      (IF task[i].throws THEN "exception" ELSE "value")
               /\ task[i].promise.val =
                      (IF task[i].throws THEN FailureOf(i)
                       ELSE IF task[i].kind = "submit_void" THEN TrueValue
                       ELSE ResultOf(i))

C8_WorkerGoesOn ==
    \A w \in Workers :
        /\ (wpc[w] = "exec" /\ task[cur[w]].kind \in SubmitKinds
              /\ task'[cur[w]].runs # task[cur[w]].runs)
               => wpc'[w] = "dec" /\ task'[cur[w]].st = "ran"
        /\ (wpc[w] = "dec" /\ wpc'[w] \notin {"dec", "aborted"})
               => tasks_total' = tasks_total - 1 /\ task'[cur[w]].st = "done"

Asleep(w) == wpc[w] = "cv" /\ w \in task_available
\* a worker that has passed the test of line 364 or holds a task: it will
\* still call tasks_done_condition_variable.notify_one()
WillSignalDone(w) == wpc[w] \in {"pop", "exec", "dec", "notify"}
\* no worker thread can take a step, now or later, unless another thread acts
NoWorkerRuns == \A w \in Workers : wpc[w] \in {"none", "exited"} \/ Asleep(w)

\* C4: once the destructor has set running to false and has broadcast, no
\* worker sleeps on the condition variable.  Nothing notifies it after that
\* broadcast, so a worker asleep here never observes running == false and its
\* join never returns.
C4_NoWorkerSleepsThroughShutdown ==
    (ret["main"] = "destroy" /\ cpc["main"] = "destroy_join") =>
        \A w \in Workers : ~Asleep(w)

\* C5: a caller of wait_for_tasks is not left blocked on the condition
\* variable while the quiescence predicate holds and no worker is about to
\* signal; in that state nothing wakes the caller for as long as the predicate
\* stays true.
C5_WaiterWokenAtQuiescence ==
    \A c \in Clients :
        (thread_count >= 1 /\ cpc[c] = "wait_cv" /\ c \in tasks_done
           /\ wait_for_tasks_pred)
            => \E w \in Workers : WillSignalDone(w)

\* ---------------------------------------------------------------------------
\* Programs of the owning thread
\* ---------------------------------------------------------------------------
Repeat(op, k) == [i \in 1..k |-> op]

\* pause(); K times submit(); wait_for_tasks(); resume()
PauseResumeProgram(k) ==
    <<"pause">> \o Repeat("submit", k) \o <<"wait_for_tasks", "resume">>

InitPauseResume ==
    /\ InitPool
    /\ \E k \in 0..MaxTasks :
          script = [c \in Clients |-> IF c = "main" THEN PauseResumeProgram(k)
                                      ELSE <<>>]

NextPauseResume ==
    \/ \E w \in Workers : WorkerStep(w)
    \/ pause("main")
    \/ \E k \in SubmitKinds, th \in BOOLEAN : push_task("main", k, th)
    \/ push_task_notify("main")
    \/ CallWait("main")
    \/ resume("main")
    \/ resume_notify("main")
    \/ SpuriousWake

SpecPauseResume == InitPauseResume /\ [][NextPauseResume]_vars

\* C9: after pause() and K calls of submit, wait_for_tasks() returns without
\* blocking, with get_tasks_running = 0 and all K tasks still queued and not
\* run; and after resume() the pool does not come to rest before all K tasks
\* have run and the counter is 0.
C9_PauseSubmitWaitResume ==
    /\ cpc["main"] \notin {"wait_block", "wait_cv"}
    /\ (script["main"] = <<"resume">> /\ cpc["main"] = "idle") =>
           /\ get_tasks_running_unprotected = 0
           /\ get_tasks_queued_unprotected = Cardinality(Enqueued)
           /\ \A i \in Enqueued : task[i].st = "queued" /\ task[i].runs = 0
    /\ (script["main"] = <<>> /\ cpc["main"] = "idle" /\ NoWorkerRuns) =>
           /\ tasks_total = 0
           /\ \A i \in Enqueued : task[i].st = "done" /\ task[i].runs = 1

\* submit() K times; reset(n) while tasks are queued; wait_for_tasks(), on a
\* pool that is not paused or on one that is paused over the reset
ResetProgram(k, with_pause) ==
    IF with_pause
    THEN <<"pause">> \o Repeat("submit", k)
             \o <<"reset", "resume", "wait_for_tasks">>
    ELSE Repeat("submit", k) \o <<"reset", "wait_for_tasks">>

InitReset ==
    /\ InitPool
    /\ \E k \in 1..MaxTasks, with_pause \in BOOLEAN :
          script = [c \in Clients |-> IF c = "main"
                                      THEN ResetProgram(k, with_pause)
                                      ELSE <<>>]

\* reset() called while tasks are queued and not yet started
reset_queued(c) ==
    /\ tasks # <<>>
    /\ reset(c)

NextReset ==
    \/ \E w \in Workers : WorkerStep(w)
    \/ pause("main")
    \/ \E k \in SubmitKinds, th \in BOOLEAN : push_task("main", k, th)
    \/ push_task_notify("main")
    \/ reset_queued("main")
    \/ reset_pause("main")
    \/ wait_lock("main")
    \/ wait_block("main")
    \/ wait_wake("main")
    \/ stop_running("main")
    \/ destroy_threads_notify("main")
    \/ destroy_threads_join("main")
    \/ \E n \in 0..MaxThreads : reset_resize("main", n)
    \/ reset_resume("main")
    \/ reset_resume_notify("main")
    \/ reset_create("main")
    \/ resume("main")
    \/ resume_notify("main")
    \/ CallWait("main")
    \/ SpuriousWake

SpecReset == InitReset /\ [][NextReset]_vars

\* the owning thread is blocked, in a join or on tasks_done
MainBlocked ==
    \/ cpc["main"] = "destroy_join" /\ ~AllJoined
    \/ cpc["main"] = "wait_cv" /\ "main" \in tasks_done

\* C10: over a reset called with tasks queued, on a pool that has workers,
\* no task is dropped or run twice (each is in the queue, with one worker, or
\* done), reset and the wait_for_tasks() after it never leave the caller
\* blocked with no worker able to run, and when that wait has returned on the
\* unpaused pool the counter is 0 and every task has run once.
C10_ResetKeepsQueuedTasks ==
    thread_count >= 1 =>
        /\ \A i \in Enqueued :
              /\ task[i].runs <= 1
              /\ Cardinality(Holders(i)) + Cardinality(QueueSlots(i))
                     = (IF task[i].st = "done" THEN 0 ELSE 1)
              /\ task[i].st = "queued" <=> QueueSlots(i) # {}
        /\ ~(MainBlocked /\ NoWorkerRuns)
        /\ (script["main"] = <<>> /\ cpc["main"] = "idle" /\ ~paused) =>
               /\ tasks_total = 0
               /\ \A i \in Enqueued : task[i].st = "done" /\ task[i].runs = 1

\* ---------------------------------------------------------------------------
\* Concurrent push_task on a running, unpaused pool with workers
\* ---------------------------------------------------------------------------
InitPush ==
    /\ Init
    /\ thread_count >= 1

NextPush ==
    \/ \E w \in Workers : WorkerStep(w)
    \/ \E c \in Clients : push_task(c, "push", FALSE)
    \/ \E c \in Clients : push_task_notify(c)
    \/ SpuriousWake

\* A thread that is not blocked on a condition variable goes on: a call of
\* push_task that has begun is completed, a worker takes its next step, and a
\* thread that wants tasks_mutex gets it if the mutex is free again and again.
WorkerFair(w) ==
    /\ WF_vars(WorkerLoop(w) \/ WorkerBlock(w) \/ WorkerCheck(w)
                 \/ WorkerPop(w) \/ WorkerExec(w) \/ WorkerNotify(w))
    /\ SF_vars(WorkerLock(w) \/ WorkerWake(w) \/ WorkerDec(w))

FairPush ==
    /\ \A c \in Clients : WF_vars(push_task_notify(c))
    /\ \A w \in Workers : WorkerFair(w)

SpecPush == InitPush /\ [][NextPush]_vars /\ FairPush

\* C11: every task enqueued by push_task is eventually dequeued, executed once
\* and accounted for, whichever worker each notify_one wakes.
C11_NoTaskLost ==
    \A i \in TaskIds :
        (task[i].st = "queued") ~> (task[i].st = "done" /\ task[i].runs = 1)

\* C11 witness: a task is queued and its notify_one is about to wake one of
\* two sleeping workers.
C11_Witness ==
    /\ \E c \in Clients : cpc[c] = "push_notify"
    /\ tasks # <<>>
    /\ task_available = Workers

\* ---------------------------------------------------------------------------
\* parallelize_loop(): integer types.  T is a signed integer of IndexBits bits
\* (int); ui32 (uint_fast32_t, as wide as int where it is narrowest) has the
\* same width and ui64 (uint_fast64_t) twice that width.
\* ---------------------------------------------------------------------------
Mod32 == 2^IndexBits
Mod64 == 2^(2 * IndexBits)
MinT  == -(2^(IndexBits - 1))
MaxT  == 2^(IndexBits - 1) - 1
T     == MinT..MaxT

to_ui32(x) == x % Mod32
to_ui64(x) == x % Mod64
\* conversion to T, and the two's complement result of an operation on T
to_T(x) == IF x % Mod32 > MaxT THEN (x % Mod32) - Mod32 ELSE x % Mod32
\* an operation on T whose mathematical result x is not a value of T is a
\* signed overflow
overflows(x) == x \notin T
\* what the build makes of undefined arithmetic: it either traps, or goes on
\* with the wrapped result (the quotient 0 for a division by zero)
Outcomes(undefined) == IF undefined THEN {"trap", "wrap"} ELSE {"wrap"}

\* (ui64)(last_index - the_first_index + 1), computed in T
loop_total_size(first, last) == to_ui64(to_T(to_T(last - first) + 1))
loop_size_overflows(first, last) ==
    overflows(last - first) \/ overflows(to_T(last - first) + 1)
\* total_size / num_blocks
loop_quotient(n, d) == IF d = 0 THEN 0 ELSE n \div d

\* T start = ((T)(t * block_size) + the_first_index)
block_start(k) == to_T(to_T(to_ui64(k * block_size)) + the_first_index)
\* T end = (t == num_blocks - 1) ? last_index + 1
\*                               : ((T)((t + 1) * block_size) + the_first_index)
block_end(k) ==
    IF k = to_ui32(num_blocks - 1)
    THEN last_index + 1
    ELSE to_T(to_T(to_ui64(to_ui32(k + 1) * block_size)) + the_first_index)
block_overflows(k) ==
    \/ overflows(to_T(to_ui64(k * block_size)) + the_first_index)
    \/ /\ k # to_ui32(num_blocks - 1)
       /\ overflows(to_T(to_ui64(to_ui32(k + 1) * block_size))
                        + the_first_index)

\* a predicate of the wait that is always true
loop_done_pred_any == TRUE
\* the predicate parallelize_loop waits for on loop_done_condition_variable
loop_done_pred == blocks_running = 0

\* the loop test t < num_blocks, and where the caller goes on
loop_next(k, n) == IF k < n THEN "pl_loop" ELSE "pl_lock"

Trap ==
    /\ wpc' = terminated_wpc
    /\ cpc' = terminated_cpc

\* ---------------------------------------------------------------------------
\* parallelize_loop()
\* ---------------------------------------------------------------------------
\* parallelize_loop(first_index, index_after_last, loop, nb) down to the
\* declaration of its mutex and condition variable: the range is put in order,
\* last_index--, a num_blocks of 0 becomes thread_count, and the sizes are
\* computed.
parallelize_loop(c, first_index, index_after_last, nb) ==
    /\ MayCall(c, "parallelize_loop")
    /\ loop_args' = <<first_index, index_after_last, nb>>
    /\ UNCHANGED <<poolVars, tasks_mutex, task_available, tasks_done, cur,
                   ret, was_paused, task, blocks_running_mutex, loop_done>>
    /\ IF first_index = index_after_last
       THEN UNCHANGED <<wpc, cpc, the_first_index, last_index, num_blocks,
                        block_size, loop_t, blocks, blocks_running>>
       ELSE LET first == IF index_after_last < first_index
                         THEN index_after_last ELSE first_index
                last  == (IF index_after_last < first_index
                          THEN first_index ELSE index_after_last) - 1
                n     == IF nb = 0 THEN thread_count ELSE nb
                total == loop_total_size(first, last)
                size  == loop_quotient(total, n)
                count == IF size # 0 THEN n
                         ELSE IF to_ui32(total) > 1 THEN to_ui32(total) ELSE 1
            IN  \E o \in Outcomes(loop_size_overflows(first, last) \/ n = 0) :
                   IF o = "trap"
                   THEN /\ Trap
                        /\ UNCHANGED <<the_first_index, last_index, num_blocks,
                                       block_size, loop_t, blocks,
                                       blocks_running>>
                   ELSE /\ the_first_index' = first
                        /\ last_index' = last
                        /\ num_blocks' = count
                        /\ block_size' = IF size = 0 THEN 1 ELSE size
                        /\ blocks_running' = count
                        /\ loop_t' = 0
                        /\ blocks' = <<>>
                        /\ cpc' = [cpc EXCEPT ![c] = loop_next(0, count)]
                        /\ UNCHANGED wpc

\* one round of the for loop up to the critical section of push_task: start
\* and end are computed and captured, the lambda is queued
loop_push(c) ==
    /\ cpc[c] = "pl_loop"
    /\ FreshIds # {}
    /\ ~tasks_mutex
    /\ \E o \in Outcomes(block_overflows(loop_t)), th \in BOOLEAN :
          IF o = "trap"
          THEN /\ Trap
               /\ UNCHANGED <<blocks, tasks, tasks_total, task>>
          ELSE /\ blocks' = Append(blocks,
                                   <<block_start(loop_t), block_end(loop_t)>>)
               /\ tasks' = queue_push(tasks, FirstFresh)
               /\ tasks_total' = counter_inc(tasks_total)
               /\ task' = [task EXCEPT ![FirstFresh] =
                              [kind |-> "block", throws |-> th,
                               st |-> "queued", runs |-> 0,
                               promise |-> NoPromise]]
               /\ cpc' = [cpc EXCEPT ![c] = "pl_notify"]
               /\ UNCHANGED wpc
    /\ UNCHANGED <<running, paused, thread_count, tasks_mutex, task_available,
                   tasks_done, cur, ret, was_paused, script, loop_args,
                   the_first_index, last_index, num_blocks, block_size, loop_t,
                   blocks_running, blocks_running_mutex, loop_done>>

\* push_task's notify_one, then t++ and the loop test
loop_push_notify(c) ==
    /\ cpc[c] = "pl_notify"
    /\ task_available' \in notify_one(task_available)
    /\ loop_t' = to_ui32(loop_t + 1)
    /\ cpc' = [cpc EXCEPT ![c] = loop_next(to_ui32(loop_t + 1), num_blocks)]
    /\ UNCHANGED <<poolVars, tasks_mutex, tasks_done, wpc, cur, ret,
                   was_paused, task, script, loop_args, the_first_index,
                   last_index, num_blocks, block_size, blocks, blocks_running,
                   blocks_running_mutex, loop_done>>

\* one round of the for loop as a computation: start and end of block t
loop_block(c) ==
    /\ cpc[c] = "pl_loop"
    /\ \E o \in Outcomes(block_overflows(loop_t)) :
          IF o = "trap"
          THEN /\ Trap
               /\ UNCHANGED <<blocks, loop_t>>
          ELSE /\ blocks' = Append(blocks,
                                   <<block_start(loop_t), block_end(loop_t)>>)
               /\ loop_t' = to_ui32(loop_t + 1)
               /\ cpc' = [cpc EXCEPT ![c] =
                             loop_next(to_ui32(loop_t + 1), num_blocks)]
               /\ UNCHANGED wpc
    /\ UNCHANGED <<poolVars, tasks_mutex, task_available, tasks_done, cur, ret,
                   was_paused, task, script, loop_args, the_first_index,
                   last_index, num_blocks, block_size, blocks_running,
                   blocks_running_mutex, loop_done>>

\* loop_done_condition_variable.wait(lock, pred): what evaluating the
\* predicate with blocks_running_mutex held leads to: the return, which
\* releases the mutex and ends the life of the locals, or the blocking wait
loop_wait_eval(c) ==
    IF loop_done_pred
    THEN /\ blocks_running_mutex' = FALSE
         /\ cpc' = [cpc EXCEPT ![c] = "idle"]
    ELSE /\ blocks_running_mutex' = TRUE
         /\ cpc' = [cpc EXCEPT ![c] = "pl_block"]

\* std::unique_lock<std::mutex> lock(blocks_running_mutex) and the first
\* evaluation of the predicate
loop_lock(c) ==
    /\ cpc[c] = "pl_lock"
    /\ ~blocks_running_mutex
    /\ loop_wait_eval(c)
    /\ UNCHANGED <<poolVars, tasks_mutex, task_available, tasks_done, wpc, cur,
                   ret, was_paused, task, script, loop_args, the_first_index,
                   last_index, num_blocks, block_size, loop_t, blocks,
                   blocks_running, loop_done>>

\* wait(lock) releases the mutex and blocks, atomically
loop_wait_block(c) ==
    /\ cpc[c] = "pl_block"
    /\ blocks_running_mutex' = FALSE
    /\ loop_done' = loop_done \cup {c}
    /\ cpc' = [cpc EXCEPT ![c] = "pl_cv"]
    /\ UNCHANGED <<poolVars, tasks_mutex, task_available, tasks_done, wpc, cur,
                   ret, was_paused, task, script, loop_args, the_first_index,
                   last_index, num_blocks, block_size, loop_t, blocks,
                   blocks_running>>

\* a woken caller re-acquires the mutex and evaluates the predicate again
loop_wait_wake(c) ==
    /\ cpc[c] = "pl_cv"
    /\ c \notin loop_done
    /\ ~blocks_running_mutex
    /\ loop_wait_eval(c)
    /\ UNCHANGED <<poolVars, tasks_mutex, task_available, tasks_done, wpc, cur,
                   ret, was_paused, task, script, loop_args, the_first_index,
                   last_index, num_blocks, block_size, loop_t, blocks,
                   blocks_running, loop_done>>

\* the lambda of a block after loop(start, end):
\* std::scoped_lock lock(blocks_running_mutex); if (--blocks_running == 0)
BlockLock(w) ==
    /\ wpc[w] = "blk_lock"
    /\ ~blocks_running_mutex
    /\ blocks_running_mutex' = TRUE
    /\ blocks_running' = to_ui32(blocks_running - 1)
    /\ wpc' = [wpc EXCEPT ![w] = IF to_ui32(blocks_running - 1) = 0
                                  THEN "blk_notify" ELSE "blk_unlock"]
    /\ UNCHANGED <<poolVars, tasks_mutex, task_available, tasks_done, cur, cpc,
                   ret, was_paused, task, script, loop_args, the_first_index,
                   last_index, num_blocks, block_size, loop_t, blocks,
                   loop_done>>

\* loop_done_condition_variable.notify_one(), with the mutex held
BlockNotify(w) ==
    /\ wpc[w] = "blk_notify"
    /\ loop_done' \in notify_one(loop_done)
    /\ wpc' = [wpc EXCEPT ![w] = "blk_unlock"]
    /\ UNCHANGED <<poolVars, tasks_mutex, task_available, tasks_done, cur, cpc,
                   ret, was_paused, task, script, loop_args, the_first_index,
                   last_index, num_blocks, block_size, loop_t, blocks,
                   blocks_running, blocks_running_mutex>>

\* the scoped_lock goes out of scope and the lambda returns into worker()
BlockUnlock(w) ==
    /\ wpc[w] = "blk_unlock"
    /\ blocks_running_mutex' = FALSE
    /\ wpc' = [wpc EXCEPT ![w] = "dec"]
    /\ UNCHANGED <<poolVars, tasks_mutex, task_available, tasks_done, cur, cpc,
                   ret, was_paused, task, script, loop_args, the_first_index,
                   last_index, num_blocks, block_size, loop_t, blocks,
                   blocks_running, loop_done>>

BlockStep(w) ==
    \/ BlockLock(w)
    \/ BlockNotify(w)
    \/ BlockUnlock(w)

\* loop_done_condition_variable may wake the caller without a notification
SpuriousWakeLoop ==
    /\ \E c \in loop_done : loop_done' = loop_done \ {c}
    /\ UNCHANGED <<poolVars, tasks_mutex, task_available, tasks_done, wpc, cur,
                   cpc, ret, was_paused, task, script, loop_args,
                   the_first_index, last_index, num_blocks, block_size, loop_t,
                   blocks, blocks_running, blocks_running_mutex>>

\* ---------------------------------------------------------------------------
\* One call of parallelize_loop on a pool, with ranges of up to MaxTasks
\* indices so that every block gets a task
\* ---------------------------------------------------------------------------
LoopProgram == <<"parallelize_loop">>

InitLoop ==
    /\ InitPool
    /\ script = [c \in Clients |-> IF c = "main" THEN LoopProgram ELSE <<>>]

NextLoop ==
    \/ \E w \in Workers : WorkerStep(w)
    \/ \E w \in Workers : BlockStep(w)
    \/ \E fi \in 0..MaxTasks, la \in 0..MaxTasks, nb \in 0..MaxTasks :
          parallelize_loop("main", fi, la, nb)
    \/ loop_push("main")
    \/ loop_push_notify("main")
    \/ loop_lock("main")
    \/ loop_wait_block("main")
    \/ loop_wait_wake("main")
    \/ SpuriousWake
    \/ SpuriousWakeLoop

SpecLoop == InitLoop /\ [][NextLoop]_vars

\* parallelize_loop has returned from a non-empty range
LoopReturned ==
    /\ script["main"] = <<>>
    /\ cpc["main"] = "idle"
    /\ loop_args[1] # loop_args[2]

BlockTasks == {i \in TaskIds : task[i].kind = "block"}

\* C12: when parallelize_loop has returned, blocks_running is 0, one task per
\* block was queued and the body of each has run exactly once, and no block
\* task is still before or inside its access to blocks_running,
\* blocks_running_mutex and loop_done_condition_variable.
C12_ReturnsAfterAllBlocks ==
    LoopReturned =>
        /\ blocks_running = 0
        /\ ~blocks_running_mutex
        /\ Len(blocks) = num_blocks
        /\ Cardinality(BlockTasks) = num_blocks
        /\ \A i \in BlockTasks :
              /\ task[i].runs = 1
              /\ task[i].st \in {"ran", "done"}
              /\ \A w \in Holders(i) : wpc[w] = "dec"

\* C12 witness: parallelize_loop has returned from a loop of MaxTasks blocks
\* while a worker has not yet decremented tasks_total for its block.
C12_Witness ==
    /\ LoopReturned
    /\ Len(blocks) = MaxTasks
    /\ \E w \in Workers : wpc[w] = "dec"

\* ---------------------------------------------------------------------------
\* The blocks of parallelize_loop as a function of its arguments: every range
\* of T, and every num_blocks from 1 to MaxBlocks
\* ---------------------------------------------------------------------------
InitBlocks == InitLoop

NextBlocks ==
    \/ \E fi \in T, la \in T, nb \in 1..MaxBlocks :
          parallelize_loop("main", fi, la, nb)
    \/ loop_block("main")

SpecBlocks == InitBlocks /\ [][NextBlocks]_vars

\* the for loop has computed every block of a non-empty range
AllBlocksCut ==
    /\ script["main"] = <<>>
    /\ cpc["main"] = "pl_lock"

Min(a, b) == IF a < b THEN a ELSE b
\* the normalised range [RangeFirst, RangeEnd) of the call
RangeFirst == Min(loop_args[1], loop_args[2])
RangeEnd   == IF loop_args[1] < loop_args[2] THEN loop_args[2] ELSE loop_args[1]
RangeTotal == RangeEnd - RangeFirst
BlockCount == Min(loop_args[3], RangeTotal)

\* C13: the blocks are min(max_blocks, total) many, each non-empty, the first
\* starts at the lower bound, each starts where the one before ends, the last
\* ends at the upper bound, and all but the last hold total / count indices.
C13_BlocksPartitionRange ==
    AllBlocksCut =>
        /\ Len(blocks) = BlockCount
        /\ blocks[1][1] = RangeFirst
        /\ blocks[Len(blocks)][2] = RangeEnd
        /\ \A k \in 1..Len(blocks) : blocks[k][1] < blocks[k][2]
        /\ \A k \in 1..(Len(blocks) - 1) :
              /\ blocks[k][2] = blocks[k + 1][1]
              /\ blocks[k][2] - blocks[k][1] = RangeTotal \div BlockCount

\* ---------------------------------------------------------------------------
\* wait_for_tasks
\* ---------------------------------------------------------------------------
\* the positions of a caller inside wait_for_tasks
WaitPositions == {"wait_lock", "wait_block", "wait_cv"}

\* the quiescence condition: not paused and nothing outstanding, or paused and
\* nothing executing
Quiescent ==
    \/ ~paused /\ tasks_total = 0
    \/ paused /\ tasks_total - Len(tasks) = 0

\* what a step of a caller inside wait_for_tasks may do
C14_WaitStep ==
    \A c \in Clients :
        (cpc[c] \in WaitPositions /\ cpc'[c] # cpc[c]
           /\ cpc'[c] # "aborted") =>
            /\ UNCHANGED <<paused, running, tasks, tasks_total>>
            /\ cpc'[c] \notin WaitPositions =>
                   Quiescent /\ Quiescent' /\ ~tasks_mutex'

\* C14: a step in which a caller leaves wait_for_tasks is taken with the mutex
\* in a state where the quiescence condition holds, and no step of a caller
\* inside wait_for_tasks changes paused, running, the queue or the counter.
C14_WaitNeverEarly == [][C14_WaitStep]_vars

\* C14 witness: wait_for_tasks has just returned inside reset on a paused pool
\* with tasks still queued and none executing.
C14_Witness ==
    /\ cpc["main"] = "stop"
    /\ ret["main"] = "reset"
    /\ paused
    /\ tasks # <<>>
    /\ tasks_total = Len(tasks)

\* ---------------------------------------------------------------------------
\* The destructor
\* ---------------------------------------------------------------------------
\* ~thread_pool() has executed running = false
DestroyStopped == ret["main"] = "destroy" /\ ~running

\* what a step may do once the destructor has stopped the pool
C15_Step ==
    DestroyStopped =>
        /\ tasks' = tasks
        /\ task' = task
        /\ \A w \in Workers : wpc'[w] \notin {"pop", "exec"}

\* C15: from the state in which the destructor has set running to false, no
\* step removes a task from the queue, runs a body or writes a result handle,
\* and no worker gets to the dequeue or to a body, whatever the queue holds.
C15_NoDequeueAfterStop == [][C15_Step]_vars

\* C15 witness: the pool was destroyed while paused, and tasks are left in the
\* queue, not run, their result handles pending.
C15_Witness ==
    /\ cpc["main"] = "destroyed"
    /\ paused
    /\ tasks # <<>>
    /\ \A k \in DOMAIN tasks :
          /\ task[tasks[k]].runs = 0
          /\ task[tasks[k]].kind \in SubmitKinds
          /\ task[tasks[k]].promise = PendingPromise

\* ---------------------------------------------------------------------------
\* reset and the pause flag
\* ---------------------------------------------------------------------------
\* reset() has executed running = false and not yet running = true
ResetStopped == ret["main"] = "reset" /\ ~running

\* reset() has returned, on the pool paused before the call (resume() is the
\* caller's next call) or on the pool that was not paused
ResetReturnedPaused ==
    cpc["main"] = "idle" /\ script["main"] = <<"resume", "wait_for_tasks">>
ResetReturnedUnpaused ==
    cpc["main"] = "idle" /\ script["main"] = <<"wait_for_tasks">>

C16_State ==
    /\ ResetReturnedPaused => paused
    /\ ResetReturnedUnpaused => ~paused
    /\ ResetStopped =>
          /\ get_tasks_running_unprotected = 0
          /\ InFlight = {}
          /\ \A w \in Workers : wpc[w] \notin {"pop", "exec", "dec"}
          /\ \A i \in Enqueued :
                /\ task[i].st \in {"queued", "done"}
                /\ task[i].st = "queued" <=> QueueSlots(i) # {}

C16_Step ==
    /\ (cpc["main"] = "reset_create" /\ cpc'["main"] = "idle") =>
           paused' = was_paused
    /\ ResetStopped => tasks' = tasks /\ task' = task

\* C16: with no other thread calling pause or resume, paused is after reset
\* what it was before; and from running = false to running = true inside
\* reset no task is executing, none starts, and the queued ones stay queued.
C16_ResetKeepsPauseFlag == []C16_State /\ [][C16_Step]_vars

\* C16 witness: reset has returned on a pool that was paused, which is still
\* paused and still holds its queued tasks.
C16_Witness ==
    /\ ResetReturnedPaused
    /\ paused /\ running
    /\ tasks # <<>>

\* ---------------------------------------------------------------------------
\* Order of the queue.  Task ids are given out in the order of the critical
\* sections of push_task, so i < j means that i was enqueued before j.
\* ---------------------------------------------------------------------------
\* C17: the queue holds its tasks in the order of their enqueues, and a task
\* has left the queue only if every task enqueued before it has left it too.
C17_FifoOrder ==
    /\ \A k \in 1..(Len(tasks) - 1) : tasks[k] < tasks[k + 1]
    /\ \A i \in Enqueued, j \in Enqueued :
          (i < j /\ task[j].st # "queued") => task[i].st # "queued"

\* C17 witness: of two enqueued tasks the first has been taken by a worker
\* while the second is still queued.
C17_Witness ==
    /\ Enqueued = TaskIds
    /\ task[1].st = "running"
    /\ task[2].st = "queued"
    /\ tasks = <<2>>

\* ---------------------------------------------------------------------------
\* The step that takes a task
\* ---------------------------------------------------------------------------
\* worker w executes front()/pop() in this step
Dequeues(w) == wpc[w] = "pop" /\ wpc'[w] = "exec"

\* the state in which a task may be taken
C18_Step ==
    \A w \in Workers :
        Dequeues(w) => (tasks # <<>> /\ running /\ ~paused)

\* C18: a worker takes a task only in a state where the queue is not empty,
\* running is true and paused is false.
C18_NoDequeueWhilePaused == [][C18_Step]_vars

\* ---------------------------------------------------------------------------
\* The running flag
\* ---------------------------------------------------------------------------
\* running stays false
C19_Step ==
    ~running => ~running'

\* C19 as stated: once running is false it never returns to true.
C19_RunningFalseForGood == [][C19_Step]_vars

\* where running is false, and the steps that change it
C19_AmendedState ==
    ~running => ret["main"] \in {"reset", "destroy"}

C19_AmendedStep ==
    /\ (running /\ ~running') =>
           cpc["main"] = "stop" /\ ret["main"] \in {"reset", "destroy"}
    /\ (~running /\ running') =>
           cpc["main"] = "reset_create" /\ ret["main"] = "reset"
    /\ DestroyStopped => ~running'

\* C19 as amended: running starts true; it is false only inside reset and
\* from the destructor's store on; it goes from true to false only in the
\* store of reset or of the destructor, from false to true only in reset's
\* running = true, and never after the destructor's store.
C19_RunningOffOnlyInsideResetOrDestroy ==
    /\ running = TRUE
    /\ []C19_AmendedState
    /\ [][C19_AmendedStep]_vars

\* C19 witness: reset has stopped and joined the old workers and is about to
\* set running back to true.
C19_Witness ==
    /\ cpc["main"] = "reset_create"
    /\ ret["main"] = "reset"
    /\ ~running

\* ---------------------------------------------------------------------------
\* A task body that calls push_task or submit on its own pool (kind "nested")
\* ---------------------------------------------------------------------------
\* the body's call: the critical section of push_task, entered from the worker
\* thread that runs the body
BodyPush(w, kind) ==
    /\ wpc[w] = "body_push"
    /\ FreshIds # {}
    /\ ~tasks_mutex
    /\ tasks' = queue_push(tasks, FirstFresh)
    /\ tasks_total' = counter_inc(tasks_total)
    /\ task' = [task EXCEPT ![FirstFresh] =
                   [kind |-> kind, throws |-> FALSE, st |-> "queued",
                    runs |-> 0,
                    promise |-> IF kind \in SubmitKinds THEN PendingPromise
                                ELSE NoPromise]]
    /\ wpc' = [wpc EXCEPT ![w] = "body_notify"]
    /\ UNCHANGED <<running, paused, thread_count, tasks_mutex, task_available,
                   tasks_done, cur, cpc, ret, was_paused, script, loopVars>>

\* the body's call: notify_one; the call and then the body return
BodyNotify(w) ==
    /\ wpc[w] = "body_notify"
    /\ task_available' \in notify_one(task_available)
    /\ task' = [task EXCEPT ![cur[w]].st = "ran"]
    /\ wpc' = [wpc EXCEPT ![w] = "dec"]
    /\ UNCHANGED <<poolVars, tasks_mutex, tasks_done, cur, cpc, ret,
                   was_paused, script, loopVars>>

BodyStep(w) ==
    \/ \E kind \in {"push", "submit_void"} : BodyPush(w, kind)
    \/ BodyNotify(w)

\* push_task of a task whose body calls the pool, then wait_for_tasks
NestedProgram == <<"push_task", "wait_for_tasks">>

InitNested ==
    /\ InitPool
    /\ thread_count >= 1
    /\ script = [c \in Clients |-> IF c = "main" THEN NestedProgram ELSE <<>>]

NextNested ==
    \/ \E w \in Workers : WorkerStep(w)
    \/ \E w \in Workers : BodyStep(w)
    \/ push_task("main", "nested", FALSE)
    \/ push_task_notify("main")
    \/ CallWait("main")
    \/ wait_block("main")
    \/ wait_wake("main")
    \/ SpuriousWake

\* the caller makes its calls and completes them, and the threads that are
\* not blocked go on
FairNested ==
    /\ \A w \in Workers : WorkerFair(w)
    /\ \A w \in Workers : SF_vars(BodyStep(w))
    /\ SF_vars(push_task("main", "nested", FALSE))
    /\ WF_vars(push_task_notify("main"))
    /\ SF_vars(CallWait("main"))
    /\ WF_vars(wait_block("main"))
    /\ SF_vars(wait_wake("main"))

SpecNested == InitNested /\ [][NextNested]_vars /\ FairNested

\* the threads that hold tasks_mutex, by their position in the code
MutexWorkers == {w \in Workers : wpc[w] \in {"check", "block", "pop"}}
MutexClients == {c \in Clients : cpc[c] = "wait_block"}

\* tasks_mutex is held exactly by a thread between its lock and its unlock: a
\* worker inside a task body is not one of them
C20_State ==
    /\ Cardinality(MutexWorkers) + Cardinality(MutexClients)
           = (IF tasks_mutex THEN 1 ELSE 0)
    /\ \A w \in Workers :
          wpc[w] \in {"exec", "body_push", "body_notify"} =>
              w \notin MutexWorkers /\ cur[w] # 0

\* the dequeue removes one task with the mutex held and releases the mutex
C20_Step ==
    \A w \in Workers :
        Dequeues(w) =>
            /\ tasks_mutex /\ ~tasks_mutex'
            /\ tasks' = Tail(tasks)

\* C20: no worker holds tasks_mutex while a body runs; it takes one task under
\* the lock and releases the lock before the body; a body that calls push_task
\* or submit completes the call, and the pool comes to rest with every task
\* done.
C20_BodyMayCallPool ==
    /\ []C20_State
    /\ [][C20_Step]_vars
    /\ \A w \in Workers : (wpc[w] = "body_push") ~> (wpc[w] = "dec")
    /\ <>[](/\ tasks_total = 0
            /\ cpc["main"] = "idle"
            /\ Cardinality(Enqueued) = 2
            /\ \A i \in Enqueued : task[i].st = "done")

\* C20 witness: a body has completed its call of push_task or submit, whose
\* task is in the pool, and has returned into worker().
C20_Witness ==
    \E w \in Workers :
        /\ wpc[w] = "dec"
        /\ task[cur[w]].kind = "nested"
        /\ Cardinality(Enqueued) = 2

\* ---------------------------------------------------------------------------
\* A paused pool with queued tasks
\* ---------------------------------------------------------------------------
\* worker w evaluates the predicate of its wait in this step, on entry to the
\* wait (line 363 after line 362) or after a wake-up
EvaluatesWait(w) == wpc[w] \in {"lock", "cv"} /\ wpc'[w] # wpc[w]

\* a worker that evaluates its wait on a paused, running pool with queued
\* tasks blocks, and a blocked worker stays where it is for as long as no
\* notification or wake-up takes it off the condition variable
C21_Step ==
    \A w \in Workers :
        /\ (EvaluatesWait(w) /\ paused /\ running /\ tasks # <<>>)
               => wpc'[w] = "block"
        /\ (Asleep(w) /\ w \in task_available') => wpc'[w] = "cv"

\* C21: no busy polling: while paused is true, running is true and the queue
\* is not empty, a worker that has no eligible task goes to sleep on
\* task_available_condition_variable and takes no step until it is signalled.
C21_NoBusyPolling == [][C21_Step]_vars

\* ---------------------------------------------------------------------------
\* Two threads in wait_for_tasks() on an unpaused pool
\* ---------------------------------------------------------------------------
\* K times push_task(); wait_for_tasks()
DrainProgram(k) == Repeat("push_task", k) \o <<"wait_for_tasks">>

\* the owning thread enqueues K tasks and waits; another thread waits too
InitDrain ==
    /\ InitPool
    /\ thread_count >= 1
    /\ \E k \in 1..MaxTasks :
          script = [c \in Clients |-> IF c = "main" THEN DrainProgram(k)
                                      ELSE DrainProgram(0)]

NextDrain ==
    \/ \E w \in Workers : WorkerStep(w)
    \/ push_task("main", "push", FALSE)
    \/ push_task_notify("main")
    \/ \E c \in Clients : CallWait(c)
    \/ \E c \in Clients : wait_block(c)
    \/ \E c \in Clients : wait_wake(c)
    \/ SpuriousWake

\* the callers make their calls and complete them, and the threads that are
\* not blocked go on; nothing obliges a condition variable to wake a thread
\* that was not notified
FairDrain ==
    /\ \A w \in Workers : WorkerFair(w)
    /\ SF_vars(push_task("main", "push", FALSE))
    /\ WF_vars(push_task_notify("main"))
    /\ \A c \in Clients : SF_vars(CallWait(c))
    /\ \A c \in Clients : WF_vars(wait_block(c))
    /\ \A c \in Clients : SF_vars(wait_wake(c))

SpecDrain == InitDrain /\ [][NextDrain]_vars /\ FairDrain

\* a caller blocked on tasks_done_condition_variable that no notification has
\* reached
Waiting(c) == cpc[c] = "wait_cv" /\ c \in tasks_done

\* no caller has a push_task left to make or to complete
NoMorePushes ==
    \A c \in Clients :
        /\ cpc[c] # "push_notify"
        /\ \A k \in 1..Len(script[c]) : script[c][k] # "push_task"

\* C22: on an unpaused pool, once the counter is 0 and no task is still to be
\* enqueued, every caller still blocked in wait_for_tasks() has a notification
\* coming: some worker is yet to call notify_one.  A caller blocked without
\* one stays blocked for good, however many callers wait at the same time.
C22_AllWaitersReturn ==
    \A c \in Clients :
        (Waiting(c) /\ ~paused /\ tasks_total = 0 /\ NoMorePushes)
            => \E w \in Workers : WillSignalDone(w)

\* ---------------------------------------------------------------------------
\* front() and pop() on a queue that is not empty
\* ---------------------------------------------------------------------------
\* a worker that has left its wait with the queue empty: the predicate was
\* true by running == false alone
LeftWaitOnStop(w) == wpc[w] = "check" /\ tasks = <<>>

\* between the wait and the dequeue a worker holds tasks_mutex and the
\* predicate of its wait is still true; at front()/pop() the queue is not empty
C23_State ==
    \A w \in Workers :
        /\ wpc[w] \in {"check", "pop"} => tasks_mutex /\ worker_wait_pred
        /\ wpc[w] = "pop" => tasks # <<>>

\* a worker that left its wait on running == false alone does not see running
\* true when it reads the flag again; a dequeue takes the head of a queue that
\* is not empty
C23_Step ==
    \A w \in Workers :
        /\ LeftWaitOnStop(w) => ~running /\ ~running' /\ wpc'[w] # "pop"
        /\ Dequeues(w) =>
               /\ tasks # <<>>
               /\ cur'[w] = Head(tasks)
               /\ tasks' = Tail(tasks)

\* C23: a worker never executes tasks.front()/tasks.pop() on an empty queue,
\* whatever push_task, pause, resume, reset and the destructor do meanwhile:
\* a worker whose wait ended on running == false with the queue empty reads
\* running as false again at the test and takes nothing.
C23_NeverPopsEmptyQueue == []C23_State /\ [][C23_Step]_vars

\* C23 witness: during a reset, after a task has been dequeued and has
\* finished, a worker has left its wait with the queue empty, on
\* running == false, and is about to read running and paused again.
C23_Witness ==
    /\ ret["main"] = "reset"
    /\ ~running
    /\ \E w \in Workers : LeftWaitOnStop(w)
    /\ \E i \in TaskIds : task[i].st = "done"

====
